---------------------------- MODULE Spec2Model ----------------------------
(* A model of lambda_function.py: the feed fetcher (get_rss), the skill    *)
(* extractor (get_skills), the storage uploader (upload_fileobj) and the   *)
(* pipeline (lambda_handler).                                              *)
(*                                                                         *)
(* Text is a sequence of one-character strings, so that str.split,         *)
(* urllib.parse.unquote and str.strip are computed character by character. *)
(* Python's None is the empty tuple <<>> and a present value x is <<x>>.   *)
EXTENDS Integers, Sequences, FiniteSets, TLC

VARIABLES
    pc,               \* position of the invocation (line about to run, or a terminal)
    status_code,      \* response.status_code of the one GET, <<>> before it
    jobs,             \* lambda_handler's jobs: the parsed document or False
    title, link, description, pubdate,   \* lambda_handler's locals
    retrieved_skill,  \* lambda_handler's retrieved_skill
    content,          \* lambda_handler's content dict, <<>> before line 115
    upload_result,    \* what upload_fileobj returned, <<>> before the call
    bucket,           \* the objects stored in AWS_S3_BUCKET by this invocation
    requests_made,    \* number of requests.request calls
    upload_calls,     \* number of upload_fileobj calls
    returned,         \* the value lambda_handler returned, <<>> while running
    fault,            \* the uncaught exception that ended the run, <<>> if none
    trace             \* the pipeline phases entered, in order

vars == <<pc, status_code, jobs, title, link, description, pubdate,
          retrieved_skill, content, upload_result, bucket, requests_made,
          upload_calls, returned, fault, trace>>

-----------------------------------------------------------------------------
(* Bounds *)

MaxItems == 3        \* items per feed document in the pipeline
MaxPieces == 4       \* pieces per encoded content when get_skills is called alone

-----------------------------------------------------------------------------
(* Python values *)

None == <<>>
Some(x) == <<x>>

SKILLS_MARKER == <<"S","k","i","l","l","s","<","/","b",">",":">>
BR_MARKER == <<"<","b","r"," ","/",">">>
COMMA == <<",">>

FIELDS == {"title", "link", "description", "pubDate"}

-----------------------------------------------------------------------------
(* str.split, urllib.parse.unquote, str.strip *)

SubStr(s, from, to) == [k \in 1..(to - from + 1) |-> s[from + k - 1]]

StartsAt(s, sep, i) ==
    /\ i + Len(sep) - 1 <= Len(s)
    /\ \A j \in 1..Len(sep) : s[i + j - 1] = sep[j]

RECURSIVE str_find(_, _, _)
\* str.find(sep, start): the lowest index >= start where sep begins, 0 if none
str_find(s, sep, start) ==
    IF start + Len(sep) - 1 > Len(s) THEN 0
    ELSE IF StartsAt(s, sep, start) THEN start
    ELSE str_find(s, sep, start + 1)

RECURSIVE str_rfind(_, _, _)
str_rfind(s, sep, start) ==
    IF start < 1 THEN 0
    ELSE IF StartsAt(s, sep, start) THEN start
    ELSE str_rfind(s, sep, start - 1)

\* s.rsplit(sep, 1): cut at the rightmost occurrence
str_rsplit_once(s, sep) ==
    LET at == str_rfind(s, sep, Len(s)) IN
    IF at = 0 THEN <<s>>
    ELSE <<SubStr(s, 1, at - 1), SubStr(s, at + Len(sep), Len(s))>>

\* s.split(sep, 1): [s] when sep does not occur, else [before, after] cut at
\* the leftmost occurrence
str_split_once(s, sep) ==
    LET at == str_find(s, sep, 1) IN
    IF at = 0 THEN <<s>>
    ELSE <<SubStr(s, 1, at - 1), SubStr(s, at + Len(sep), Len(s))>>

RECURSIVE str_split(_, _)
\* s.split(sep): every occurrence cuts; empty strings are kept
str_split(s, sep) ==
    LET at == str_find(s, sep, 1) IN
    IF at = 0 THEN <<s>>
    ELSE <<SubStr(s, 1, at - 1)>> \o str_split(SubStr(s, at + Len(sep), Len(s)), sep)

HEXDIG == {"0","1","2","3","4","5","6","7","8","9",
           "a","b","c","d","e","f","A","B","C","D","E","F"}

REPLACEMENT == "\\ufffd"

\* _hextobyte followed by the UTF-8 decode of the byte. The escapes of the
\* inputs drawn below are %20, %2B and %2C; any other escape is shown as the
\* replacement character (multi-byte sequences are not modelled).
hextochar(h1, h2) ==
    CASE <<h1, h2>> = <<"2", "0">> -> " "
      [] <<h1, h2>> \in {<<"2", "B">>, <<"2", "b">>} -> "+"
      [] <<h1, h2>> \in {<<"2", "C">>, <<"2", "c">>} -> ","
      [] OTHER -> REPLACEMENT

RECURSIVE unquote_from(_, _)
unquote_from(s, i) ==
    IF i > Len(s) THEN <<>>
    ELSE IF /\ s[i] = "%"
            /\ i + 2 <= Len(s)
            /\ s[i + 1] \in HEXDIG
            /\ s[i + 2] \in HEXDIG
         THEN <<hextochar(s[i + 1], s[i + 2])>> \o unquote_from(s, i + 3)
         ELSE <<s[i]>> \o unquote_from(s, i + 1)

\* urllib.parse.unquote: each %XX with two hex digits becomes its character,
\* any other % stays
unquote(s) == unquote_from(s, 1)

WHITESPACE == {" ", "\t", "\n", "\r"}

RECURSIVE lstrip(_)
lstrip(s) == IF s # <<>> /\ Head(s) \in WHITESPACE THEN lstrip(Tail(s)) ELSE s

RECURSIVE rstrip(_)
rstrip(s) ==
    IF s # <<>> /\ s[Len(s)] \in WHITESPACE THEN rstrip(SubStr(s, 1, Len(s) - 1)) ELSE s

\* str.strip()
strip(s) == rstrip(lstrip(s))

-----------------------------------------------------------------------------
(* The parsed document, as the handler navigates it *)

\* What get_rss returns for a non-200 response.
False_ == [soup |-> FALSE, channel |-> None, items |-> <<>>]

\* A BeautifulSoup object: channel is None when the document has no
\* rss/channel element, else Some(the set of FIELDS that are children of the
\* channel itself); each item has its own children and its encoded content.
Soup(channel, items) == [soup |-> TRUE, channel |-> channel, items |-> items]

Item(own, encoded) == [own |-> own, encoded |-> encoded]

\* The text of a tag: where the tag sits in the document
Text(from, index, tag) == [from |-> from, index |-> index, tag |-> tag]

Returns(v) == [raised |-> FALSE, value |-> <<v>>]
Raises == [raised |-> TRUE, value |-> <<>>]

\* bool(jobs): a BeautifulSoup object is always true, False is not
truthy(j) == j.soup

\* jobs.rss.channel.<tag>: attribute access on a tag is find(tag), the first
\* DESCENDANT of that name in document order (the channel's own children come
\* before its items in the documents drawn here); None when there is none.
channel_find(doc, tag) ==
    IF tag \in doc.channel[1] THEN Some(Text("channel", 0, tag))
    ELSE IF \E k \in 1..Len(doc.items) : tag \in doc.items[k].own
         THEN LET first == CHOOSE k \in 1..Len(doc.items) :
                              /\ tag \in doc.items[k].own
                              /\ \A j \in 1..(k - 1) : tag \notin doc.items[j].own
              IN Some(Text("item", first, tag))
         ELSE None

\* jobs.rss.channel.<tag>.get_text(): AttributeError when any step is None
channel_get_text(doc, tag) ==
    IF doc.channel = None THEN Raises
    ELSE LET found == channel_find(doc, tag) IN
         IF found = None THEN Raises ELSE Returns(found[1])

-----------------------------------------------------------------------------
(* get_rss *)

\* get_rss taking every status below 400 for a success
get_rss_below_400(status, parsed) == IF status < 400 THEN parsed ELSE False_

\* lines 37-40: the document when the status is 200, else False
get_rss(status, parsed) == IF status = 200 THEN parsed ELSE False_

-----------------------------------------------------------------------------
(* get_skills *)

\* lines 53-57: the text after the first marker; None stands for the
\* IndexError that makes the loop continue with the next item
after_marker(content_encoded) ==
    LET parts == str_split_once(content_encoded, SKILLS_MARKER) IN
    IF Len(parts) < 2 THEN None ELSE Some(parts[2])

\* skills[:skills.find("<br />")]: loses the last character when there is no <br />
before_br_by_find(skills) ==
    LET at == str_find(skills, BR_MARKER, 1) IN
    SubStr(skills, 1, IF at = 0 THEN Len(skills) - 1 ELSE at - 1)

\* line 60: the text before the first <br />, all of it when there is none
before_br(skills) == str_split_once(skills, BR_MARKER)[1]

\* the split with its empty tokens dropped
split_commas_nonempty(skills) ==
    SelectSeq(str_split(skills, COMMA), LAMBDA t : t # <<>>)

\* line 69
split_commas(skills) == str_split(skills, COMMA)

RECURSIVE append_skills_unique(_, _)
\* a skill is appended only when the result does not hold it yet
append_skills_unique(result, skills) ==
    IF skills = <<>> THEN result
    ELSE LET skill == strip(unquote(Head(skills))) IN
         append_skills_unique(
             IF \E k \in 1..Len(result) : result[k] = skill
             THEN result ELSE Append(result, skill),
             Tail(skills))

\* lines 77-79: every token is unquoted, stripped and appended
append_skills(result, skills) ==
    result \o [k \in 1..Len(skills) |-> strip(unquote(skills[k]))]

\* the IndexError of line 54 left uncaught
on_missing_marker_raises(result) == Raises

\* lines 55-57: the item is logged and skipped
on_missing_marker(result) == Returns(result)

RECURSIVE get_skills_loop(_, _, _)
\* lines 50-81, from the k-th item on with result accumulated so far
get_skills_loop(items, k, result) ==
    IF k > Len(items) THEN Returns(result)
    ELSE IF items[k].encoded = None THEN Raises      \* line 51: None.get_text()
    ELSE LET content_encoded == items[k].encoded[1]
             skills == after_marker(content_encoded)
         IN  IF skills = None
             THEN LET r == on_missing_marker(result) IN
                  IF r.raised THEN r ELSE get_skills_loop(items, k + 1, r.value[1])
             ELSE get_skills_loop(items, k + 1,
                      append_skills(result, split_commas(before_br(skills[1]))))

get_skills(rss) == get_skills_loop(rss.items, 1, <<>>)

-----------------------------------------------------------------------------
(* upload_fileobj *)

\* lines 99-104: True when the client stored the object, False on ClientError
upload_fileobj(outcome) == outcome = "stored"

dumps(c) == [json |-> c]
gzip_compress(b) == [gzip |-> b]

\* lines 129-130
object_name(now) == <<"upwork_skills_", now, ".json.gz">>

-----------------------------------------------------------------------------
(* The inputs drawn *)

STATUS_CODES == {200, 301, 404, 500}

UPLOAD_OUTCOMES == {"stored", "ClientError"}

CLOCK == {"2020-01-01_00:00:00+00:00", "2020-01-01_00:00:01+00:00"}

RECURSIVE Cat(_)
\* the concatenation of a sequence of texts
Cat(pieces) == IF pieces = <<>> THEN <<>> ELSE Head(pieces) \o Cat(Tail(pieces))

X == <<"x">>
Y == <<"y">>
SPACE == <<" ">>
PERCENT == <<"%">>
PLUS_ESCAPED == <<"%", "2", "B">>
COMMA_ESCAPED == <<"%", "2", "C">>
SPACE_ESCAPED == <<"%", "2", "0">>

PIECES == {SKILLS_MARKER, BR_MARKER, COMMA, SPACE, X, Y,
           PLUS_ESCAPED, COMMA_ESCAPED, SPACE_ESCAPED, PERCENT}

RECURSIVE Texts(_)
\* every text made of at most n pieces
Texts(n) ==
    IF n = 0 THEN {<<>>}
    ELSE LET shorter == Texts(n - 1) IN
         shorter \cup {t \o p : t \in shorter, p \in PIECES}

\* get_skills called on its own: one item, any text of at most MaxPieces
\* pieces as its encoded content, or no encoded element at all
DirectDocuments ==
    {Soup(Some(FIELDS), <<Item({}, Some(t))>>) : t \in Texts(MaxPieces)}
        \cup {Soup(Some(FIELDS), <<Item({}, None)>>)}

\* The encoded contents of the pipeline's feeds
TYPICAL == Cat(<<X, SKILLS_MARKER, SPACE, X, COMMA, SPACE, Y, COMMA, X, SPACE, BR_MARKER, Y>>)
NO_MARKER == Cat(<<X, COMMA, Y, BR_MARKER>>)
NO_BR == Cat(<<SKILLS_MARKER, Y, COMMA>>)
TWO_SECTIONS == Cat(<<SKILLS_MARKER, PLUS_ESCAPED, BR_MARKER, SKILLS_MARKER, X, BR_MARKER>>)

SAMPLE_CONTENTS == {TYPICAL, NO_MARKER, NO_BR, TWO_SECTIONS}

SAMPLE_ITEMS ==
    {Item({}, Some(t)) : t \in SAMPLE_CONTENTS}
        \cup {Item({}, None), Item(FIELDS, Some(Cat(<<SKILLS_MARKER, X, BR_MARKER>>)))}

RECURSIVE Feeds(_)
\* every sequence of at most n sample items
Feeds(n) ==
    IF n = 0 THEN {<<>>}
    ELSE LET shorter == Feeds(n - 1) IN
         shorter \cup {Append(f, i) : f \in shorter, i \in SAMPLE_ITEMS}

\* What the parser can hand to the pipeline: a document without a channel,
\* or a channel with any of its four fields and at most MaxItems items
Documents ==
    {Soup(None, <<>>)}
        \cup {Soup(Some(own), items) : own \in SUBSET FIELDS, items \in Feeds(MaxItems)}

-----------------------------------------------------------------------------
(* The invocation *)

Unstarted ==
    /\ status_code = None
    /\ title = None /\ link = None /\ description = None /\ pubdate = None
    /\ retrieved_skill = None
    /\ content = None
    /\ upload_result = None
    /\ bucket = <<>>
    /\ requests_made = 0
    /\ upload_calls = 0
    /\ returned = None
    /\ fault = None
    /\ trace = <<>>

\* lambda_handler is about to run
Init ==
    /\ pc = "L108"
    /\ jobs = None
    /\ Unstarted

\* get_skills is about to run on a document
InitGetSkills ==
    /\ pc = "get_skills"
    /\ jobs \in {Some(d) : d \in DirectDocuments}
    /\ Unstarted

\* an exception nobody catches ends the invocation
Uncaught(line) ==
    /\ pc' = "faulted"
    /\ fault' = Some(line)

\* line 108, get_rss, lines 36-40: the one GET, answered with a status
GetRss ==
    /\ pc = "L108"
    /\ \E status \in STATUS_CODES, parsed \in Documents :
          /\ status_code' = Some(status)
          /\ jobs' = Some(get_rss(status, parsed))
    /\ requests_made' = requests_made + 1
    /\ trace' = Append(trace, "fetching")
    /\ pc' = "L109"
    /\ UNCHANGED <<title, link, description, pubdate, retrieved_skill, content,
                   upload_result, bucket, upload_calls, returned, fault>>

\* line 36: requests.request raises (no connection); nothing catches it
GetRssRaises ==
    /\ pc = "L108"
    /\ requests_made' = requests_made + 1
    /\ trace' = Append(trace, "fetching")
    /\ Uncaught("L108")
    /\ UNCHANGED <<status_code, jobs, title, link, description, pubdate,
                   retrieved_skill, content, upload_result, bucket, upload_calls,
                   returned>>

\* line 109: if jobs
TestJobs ==
    /\ pc = "L109"
    /\ pc' = IF truthy(jobs[1]) THEN "L110" ELSE "L135"
    /\ UNCHANGED <<status_code, jobs, title, link, description, pubdate,
                   retrieved_skill, content, upload_result, bucket, requests_made,
                   upload_calls, returned, fault, trace>>

\* line 110
ReadTitle ==
    /\ pc = "L110"
    /\ trace' = Append(trace, "extracting")
    /\ LET r == channel_get_text(jobs[1], "title") IN
       IF r.raised THEN Uncaught("L110") /\ UNCHANGED title
       ELSE title' = r.value /\ pc' = "L111" /\ UNCHANGED fault
    /\ UNCHANGED <<status_code, jobs, link, description, pubdate, retrieved_skill,
                   content, upload_result, bucket, requests_made, upload_calls,
                   returned>>

\* line 111
ReadLink ==
    /\ pc = "L111"
    /\ LET r == channel_get_text(jobs[1], "link") IN
       IF r.raised THEN Uncaught("L111") /\ UNCHANGED link
       ELSE link' = r.value /\ pc' = "L112" /\ UNCHANGED fault
    /\ UNCHANGED <<status_code, jobs, title, description, pubdate, retrieved_skill,
                   content, upload_result, bucket, requests_made, upload_calls,
                   returned, trace>>

\* line 112
ReadDescription ==
    /\ pc = "L112"
    /\ LET r == channel_get_text(jobs[1], "description") IN
       IF r.raised THEN Uncaught("L112") /\ UNCHANGED description
       ELSE description' = r.value /\ pc' = "L113" /\ UNCHANGED fault
    /\ UNCHANGED <<status_code, jobs, title, link, pubdate, retrieved_skill,
                   content, upload_result, bucket, requests_made, upload_calls,
                   returned, trace>>

\* line 113
ReadPubDate ==
    /\ pc = "L113"
    /\ LET r == channel_get_text(jobs[1], "pubDate") IN
       IF r.raised THEN Uncaught("L113") /\ UNCHANGED pubdate
       ELSE pubdate' = r.value /\ pc' = "L114" /\ UNCHANGED fault
    /\ UNCHANGED <<status_code, jobs, title, link, description, retrieved_skill,
                   content, upload_result, bucket, requests_made, upload_calls,
                   returned, trace>>

\* line 114: get_skills(jobs); what it raises is not caught
ExtractSkills ==
    /\ pc = "L114"
    /\ LET r == get_skills(jobs[1]) IN
       IF r.raised THEN Uncaught("L114") /\ UNCHANGED retrieved_skill
       ELSE retrieved_skill' = r.value /\ pc' = "L115" /\ UNCHANGED fault
    /\ UNCHANGED <<status_code, jobs, title, link, description, pubdate, content,
                   upload_result, bucket, requests_made, upload_calls, returned,
                   trace>>

\* lines 115-126: the record, serialized and compressed
BuildContent ==
    /\ pc = "L115"
    /\ content' = Some([title |-> title[1], link |-> link[1],
                        description |-> description[1], pubdate |-> pubdate[1],
                        skills |-> retrieved_skill[1]])
    /\ pc' = "L129"
    /\ UNCHANGED <<status_code, jobs, title, link, description, pubdate,
                   retrieved_skill, upload_result, bucket, requests_made,
                   upload_calls, returned, fault, trace>>

\* lines 129-131, upload_fileobj, lines 94-104: the object is stored, or the
\* client raises ClientError, which is logged and becomes False
Upload ==
    /\ pc = "L129"
    /\ \E now \in CLOCK, outcome \in UPLOAD_OUTCOMES :
          /\ upload_result' = Some(upload_fileobj(outcome))
          /\ bucket' = IF outcome = "stored"
                       THEN Append(bucket, [name |-> object_name(now),
                                            body |-> gzip_compress(dumps(content[1]))])
                       ELSE bucket
    /\ upload_calls' = upload_calls + 1
    /\ trace' = Append(trace, "uploading")
    /\ pc' = "L132"
    /\ UNCHANGED <<status_code, jobs, title, link, description, pubdate,
                   retrieved_skill, content, requests_made, returned, fault>>

\* line 100: the client raises something other than ClientError
UploadRaises ==
    /\ pc = "L129"
    /\ upload_calls' = upload_calls + 1
    /\ trace' = Append(trace, "uploading")
    /\ Uncaught("L131")
    /\ UNCHANGED <<status_code, jobs, title, link, description, pubdate,
                   retrieved_skill, content, upload_result, bucket, requests_made,
                   returned>>

\* lines 132-133
ReturnTrue ==
    /\ pc = "L132"
    /\ returned' = Some(TRUE)
    /\ trace' = Append(trace, "done")
    /\ pc' = "returned"
    /\ UNCHANGED <<status_code, jobs, title, link, description, pubdate,
                   retrieved_skill, content, upload_result, bucket, requests_made,
                   upload_calls, fault>>

\* a failed fetch sent back to line 108 instead of returning
ReturnFalseRetry ==
    /\ pc = "L135"
    /\ pc' = "L108"
    /\ UNCHANGED <<status_code, jobs, title, link, description, pubdate,
                   retrieved_skill, content, upload_result, bucket, requests_made,
                   upload_calls, returned, fault, trace>>

\* lines 135-136
ReturnFalse ==
    /\ pc = "L135"
    /\ returned' = Some(FALSE)
    /\ trace' = Append(trace, "aborted")
    /\ pc' = "returned"
    /\ UNCHANGED <<status_code, jobs, title, link, description, pubdate,
                   retrieved_skill, content, upload_result, bucket, requests_made,
                   upload_calls, fault>>

\* get_skills(rss) called on its own
CallGetSkills ==
    /\ pc = "get_skills"
    /\ LET r == get_skills(jobs[1]) IN
       IF r.raised THEN Uncaught("L51") /\ UNCHANGED retrieved_skill
       ELSE retrieved_skill' = r.value /\ pc' = "get_skills_returned" /\ UNCHANGED fault
    /\ UNCHANGED <<status_code, jobs, title, link, description, pubdate, content,
                   upload_result, bucket, requests_made, upload_calls, returned,
                   trace>>

Next ==
    \/ GetRss
    \/ GetRssRaises
    \/ TestJobs
    \/ ReadTitle
    \/ ReadLink
    \/ ReadDescription
    \/ ReadPubDate
    \/ ExtractSkills
    \/ BuildContent
    \/ Upload
    \/ UploadRaises
    \/ ReturnTrue
    \/ ReturnFalse

Spec == Init /\ [][Next]_vars

NextGetSkills == CallGetSkills

SpecGetSkills == InitGetSkills /\ [][NextGetSkills]_vars

-----------------------------------------------------------------------------
(* What the extractor is to compute, stated by positions in the text rather *)
(* than by splitting                                                        *)

OccursAt(s, sep, i) ==
    /\ i >= 1
    /\ i + Len(sep) - 1 <= Len(s)
    /\ SubSeq(s, i, i + Len(sep) - 1) = sep

\* the least position >= from where sep occurs, 0 when there is none
FirstFrom(s, sep, from) ==
    LET hits == {i \in from..Len(s) : OccursAt(s, sep, i)} IN
    IF hits = {} THEN 0 ELSE CHOOSE i \in hits : \A j \in hits : i <= j

HasMarker(s) == FirstFrom(s, SKILLS_MARKER, 1) # 0

\* the position right after the first marker
AfterMarker(s) == FirstFrom(s, SKILLS_MARKER, 1) + Len(SKILLS_MARKER)

HasBrAfterMarker(s) == HasMarker(s) /\ FirstFrom(s, BR_MARKER, AfterMarker(s)) # 0

\* everything after the first marker
Remainder(s) == SubSeq(s, AfterMarker(s), Len(s))

\* the text between the first marker and the first <br /> after it (the
\* whole remainder when no <br /> follows)
Kept(s) ==
    LET br == FirstFrom(s, BR_MARKER, AfterMarker(s)) IN
    SubSeq(s, AfterMarker(s), IF br = 0 THEN Len(s) ELSE br - 1)

Commas(t) == {i \in 1..Len(t) : t[i] = ","}

\* the k-th comma of t, with position 0 before the first and Len(t) + 1 after the last
Cut(t, k) ==
    IF k = 0 THEN 0
    ELSE IF k > Cardinality(Commas(t)) THEN Len(t) + 1
    ELSE CHOOSE i \in Commas(t) : Cardinality({j \in Commas(t) : j <= i}) = k

\* the comma-separated tokens of t, in order
RawTokens(t) ==
    [k \in 1..(Cardinality(Commas(t)) + 1) |-> SubSeq(t, Cut(t, k - 1) + 1, Cut(t, k) - 1)]

\* t without its leading and trailing whitespace
Trimmed(t) ==
    LET ink == {i \in 1..Len(t) : t[i] \notin WHITESPACE} IN
    IF ink = {} THEN <<>>
    ELSE SubSeq(t, CHOOSE i \in ink : \A j \in ink : i <= j,
                   CHOOSE i \in ink : \A j \in ink : j <= i)

\* where a percent escape starts: a % followed by two hex digits
Escapes(t) ==
    {i \in 1..Len(t) : /\ t[i] = "%"
                       /\ i + 2 <= Len(t)
                       /\ t[i + 1] \in HEXDIG
                       /\ t[i + 2] \in HEXDIG}

\* t with every percent escape replaced by the character it stands for
Decoded(t) ==
    LET covered == {i \in 1..Len(t) : i - 1 \in Escapes(t) \/ i - 2 \in Escapes(t)}
        kept == (1..Len(t)) \ covered
        nth(n) == CHOOSE i \in kept : Cardinality({j \in kept : j <= i}) = n
    IN  [n \in 1..Cardinality(kept) |->
            IF nth(n) \in Escapes(t)
            THEN hextochar(t[nth(n) + 1], t[nth(n) + 2])
            ELSE t[nth(n)]]

\* the skills of a text t: its tokens, decoded and then trimmed
SkillsOf(t) == [k \in 1..Len(RawTokens(t)) |-> Trimmed(Decoded(RawTokens(t)[k]))]

\* the skills one item is to contribute
ItemSkills(item) ==
    IF HasMarker(item.encoded[1]) THEN SkillsOf(Kept(item.encoded[1])) ELSE <<>>

RECURSIVE Flat(_)
\* the items' skills, item after item
Flat(items) ==
    IF items = <<>> THEN <<>>
    ELSE Flat(SubSeq(items, 1, Len(items) - 1)) \o ItemSkills(items[Len(items)])

Without(items, k) == SubSeq(items, 1, k - 1) \o SubSeq(items, k + 1, Len(items))

\* get_skills has returned from its call on one item
Extracted == pc = "get_skills_returned"
TheContent == jobs[1].items[1].encoded[1]
TheSkills == retrieved_skill[1]

\* the fetch was answered with a status other than 200
FetchFailed == status_code # None /\ status_code[1] # 200
\* the fetch was answered with a document
Fetched == jobs # None /\ truthy(jobs[1])
AllEncoded(items) == \A k \in 1..Len(items) : items[k].encoded # None

-----------------------------------------------------------------------------
(* The claims *)

\* C1: whenever the fetch returned a status other than 200, the invocation
\* goes straight to returning false: the uploader is never called, nothing is
\* stored, no field of the record and no record is built, nothing faults.
C1_FetchFailureAborts ==
    FetchFailed =>
        /\ pc \in {"L109", "L135", "returned"}
        /\ pc = "returned" => returned = Some(FALSE)
        /\ returned # Some(TRUE)
        /\ upload_calls = 0 /\ bucket = <<>> /\ upload_result = None
        /\ title = None /\ link = None /\ description = None /\ pubdate = None
        /\ retrieved_skill = None /\ content = None
        /\ fault = None

C1_Witness ==
    /\ status_code = Some(404)
    /\ pc = "returned"
    /\ returned = Some(FALSE)

\* C2 (as claimed): an invocation returns true only when its upload stored
\* the archive.
C2_TrueOnlyWhenStored ==
    returned = Some(TRUE) => upload_result = Some(TRUE) /\ Len(bucket) = 1

\* C3 (as claimed): for an item with the marker and a <br /> after it, the
\* skills are the comma-separated tokens of the text between the first marker
\* and the first <br /> after it, each whitespace-trimmed, in token order.
C3_TokensTrimmedOnly ==
    (Extracted /\ HasBrAfterMarker(TheContent)) =>
        TheSkills = [k \in 1..Len(RawTokens(Kept(TheContent))) |->
                        Trimmed(RawTokens(Kept(TheContent))[k])]

\* C3 (amended): for an item with the marker and a <br /> after it, the
\* skills are the comma-separated tokens of the text between the first marker
\* and the first <br /> after it, each percent-decoded and then
\* whitespace-trimmed, in token order; nothing after that <br /> contributes.
C3_TokensDecodedThenTrimmed ==
    (Extracted /\ HasBrAfterMarker(TheContent)) =>
        TheSkills = SkillsOf(Kept(TheContent))

C3_Witness ==
    /\ Extracted
    /\ TheContent = Cat(<<SKILLS_MARKER, PLUS_ESCAPED, BR_MARKER>>)
    /\ TheSkills = <<<<"+">>>>

\* C5: an item with the marker contributes 1 + (number of commas in the kept
\* portion) entries; a kept portion ending in a comma gives a last entry that
\* is the empty string and a blank kept portion gives one empty string.
C5_EmptyTokensKept ==
    (Extracted /\ HasMarker(TheContent)) =>
        LET kept == Kept(TheContent) IN
        /\ Len(TheSkills) = 1 + Cardinality(Commas(kept))
        /\ (kept # <<>> /\ kept[Len(kept)] = ",") => TheSkills[Len(TheSkills)] = <<>>
        /\ (\A i \in 1..Len(kept) : kept[i] \in WHITESPACE) => TheSkills = << <<>> >>

C5_Witness ==
    /\ Extracted
    /\ TheContent = Cat(<<SKILLS_MARKER, X, COMMA>>)
    /\ TheSkills = <<X, <<>>>>

\* C6 (as claimed): skill extraction never raises, whatever the document.
C6_ExtractionNeverRaises == pc # "faulted"

\* C10: an item with the marker always contributes at least one entry; when
\* no <br /> follows the marker the whole remainder after the marker is what
\* is split on commas; an item contributes nothing only when it has no marker.
C10_MarkerNeverSkipped ==
    Extracted =>
        /\ HasMarker(TheContent) => Len(TheSkills) >= 1
        /\ (HasMarker(TheContent) /\ ~HasBrAfterMarker(TheContent)) =>
               TheSkills = SkillsOf(Remainder(TheContent))
        /\ TheSkills = <<>> => ~HasMarker(TheContent)

C10_Witness ==
    /\ Extracted
    /\ TheContent = Cat(<<SKILLS_MARKER, X, COMMA, Y>>)
    /\ TheSkills = <<X, Y>>

\* C4: an item without the marker contributes nothing and does not stop the
\* run: the extracted list is what the feed without that item gives,
\* extraction faults only on an item without encoded content, and an
\* invocation that fetched a document and returns, returns true.
C4_MarkerlessItemSkipped ==
    Fetched =>
        LET items == jobs[1].items IN
        /\ retrieved_skill # None =>
               \A k \in 1..Len(items) :
                   ~HasMarker(items[k].encoded[1]) =>
                       retrieved_skill[1] = Flat(Without(items, k))
        /\ fault = Some("L114") => ~AllEncoded(items)
        /\ pc = "returned" => returned = Some(TRUE)

C4_Witness ==
    /\ pc = "returned"
    /\ returned = Some(TRUE)
    /\ jobs[1].items = <<Item({}, Some(NO_MARKER)), Item({}, Some(NO_BR))>>
    /\ retrieved_skill = Some(<<Y, <<>>>>)

\* C7 (as claimed): when the fetched document's channel lacks one of its four
\* fields, no upload is made, no record is built and the invocation does not
\* return true; every field read, and every field of a stored archive, is
\* the channel's own.
C7_FieldsOnlyFromChannel ==
    Fetched =>
        /\ (jobs[1].channel = None \/ jobs[1].channel[1] # FIELDS) =>
               /\ upload_calls = 0
               /\ content = None
               /\ returned # Some(TRUE)
        /\ \A read \in {title, link, description, pubdate} :
               read # None => read[1].from = "channel"
        /\ \A n \in 1..Len(bucket) :
               LET record == bucket[n].body.gzip.json IN
               /\ record.title.from = "channel"
               /\ record.link.from = "channel"
               /\ record.description.from = "channel"
               /\ record.pubdate.from = "channel"

Prefixes(s) == {SubSeq(s, 1, n) : n \in 0..Len(s)}

\* C8: one invocation runs fetching, extracting, uploading, done in that
\* order, each entered at most once; the fetch is issued exactly once, the
\* uploader is called at most once and exactly once when true is returned,
\* never before extraction has completed; only a failed fetch leads to the
\* aborted end, and nothing is tried again.
C8_LinearRun ==
    /\ requests_made <= 1
    /\ pc # "L108" => requests_made = 1
    /\ upload_calls <= 1
    /\ returned = Some(TRUE) => upload_calls = 1
    /\ upload_calls > 0 => retrieved_skill # None /\ content # None
    /\ trace \in Prefixes(<<"fetching", "extracting", "uploading", "done">>)
                    \cup {<<"fetching", "aborted">>}
    /\ returned = Some(FALSE) => FetchFailed /\ trace = <<"fetching", "aborted">>
    /\ returned = Some(TRUE) => trace = <<"fetching", "extracting", "uploading", "done">>

C8_Witness ==
    /\ pc = "returned"
    /\ returned = Some(TRUE)
    /\ upload_result = Some(FALSE)
    /\ upload_calls = 1
    /\ requests_made = 1

\* C9: the extracted list is the items' own skill sequences one after the
\* other in feed order, every occurrence kept.
C9_FlatConcatenation ==
    (Fetched /\ retrieved_skill # None) => retrieved_skill[1] = Flat(jobs[1].items)

C9_Witness ==
    /\ pc = "L115"
    /\ jobs[1].items = <<Item({}, Some(TYPICAL)), Item({}, Some(NO_BR))>>
    /\ retrieved_skill = Some(<<X, Y, X, Y, <<>>>>)

=============================================================================
